---- MODULE Spec2Model ----
(***************************************************************************)
(* Model of perbu/calvin: the date expression resolver                    *)
(* (dateparse.DefaultParser.Parse and getWeekDays), its caller run with    *)
(* buildCalendarID, and of package gcal the week listing, compactAttendees *)
(* and the token functions loadOrObtainToken and getTokenFromWeb.          *)
(*                                                                         *)
(* A time.Time is a record [abs, loc]: abs is the instant in hours since   *)
(* 0001-01-01 00:00 UTC (Go's zero time, a Monday) and loc is the value's  *)
(* location. A location is [before, at, after]: its UTC offset in hours is *)
(* before for instants earlier than at and after from at on; a fixed       *)
(* offset has before = after. A string is a sequence of one-character      *)
(* strings, so that strings.ToLower and time.Parse are computed character  *)
(* by character.                                                           *)
(***************************************************************************)
EXTENDS Integers, Sequences, FiniteSets, TLC

VARIABLES
    args,       \* the token sequence handed to run and to Parse
    now,        \* the value an injected NowDate function returns when called
    provider,   \* "injected": NowDate was replaced; "default": the one of New()
    wall,       \* the wall clock, time.Now(), in hours since the zero time
    pc,         \* position of the caller / of Parse
    result,     \* Parse's local variable result, then its first return value
    err,        \* Parse's second return value
    log,        \* lines written by log.Printf
    nowCalls,   \* number of invocations of p.NowDate
    seen,       \* the values p.NowDate returned, in order
    returns,    \* what each finished Parse call returned, and when
    effects,    \* the calls run has made outside dateparse, in order
    runErr,     \* what run returned
    username,       \* buildCalendarID's first argument
    defaultDomain,  \* configData.DefaultDomain
    calendarID,     \* what buildCalendarID returned
    startDate,      \* getWeekDays' first argument
    offset,         \* getWeekDays' second argument
    untilMonday,    \* getWeekDays' local variable daysUntilMonday
    weekDays,       \* what getWeekDays returned
    attendees,      \* the e-mail addresses of item.Attendees, in order
    who,            \* compactAttendees' local variable who
    compact,        \* what compactAttendees returned
    day,            \* ListAndPrintEventsForWeek: index of the loop's next day
    trace,          \* the ListEvents calls and the lines printed, in order
    listErr,        \* what ListAndPrintEventsForWeek returned
    stored,         \* token.json when NewGCalService starts
    saved,          \* the tokens written by loader.SaveToken, in order
    token,          \* the token loadOrObtainToken returned
    tokErr,         \* the error loadOrObtainToken returned
    state,          \* getTokenFromWeb's local variable state
    listening,      \* the callback server accepts requests
    handlers,       \* the callback requests and their handler goroutines
    authCode,       \* getTokenFromWeb's local variable authCode
    exchanged       \* the codes handed to conf.Exchange, in order

\* the variables of Parse and of run
parseVars == <<args, now, provider, wall, pc, result, err, log, nowCalls, seen,
               returns, effects, runErr>>

\* the variables of Parse and of run other than pc
parseVarsButPc == <<args, now, provider, wall, result, err, log, nowCalls, seen,
                    returns, effects, runErr>>

\* the variables of the functions checked on their own
fnVars == <<username, defaultDomain, calendarID, startDate, offset, untilMonday,
           weekDays, attendees, who, compact>>

\* the variables of package gcal
gcalVars == <<day, trace, listErr>>

\* the variables of loadOrObtainToken and getTokenFromWeb
tokenVars == <<stored, saved, token, tokErr, state, listening, handlers,
               authCode, exchanged>>

vars == <<parseVars, fnVars, gcalVars, tokenVars>>

----------------------------------------------------------------------------
(* Bounds of the model *)

\* number of consecutive calendar days the now provider's value ranges over
NowDays == 8
\* number of Parse calls made on one parser
MaxCalls == 2
\* number of half days the wall clock advances
MaxTicks == 3
\* largest day offset given to getWeekDays, either way
MaxOffset == 8
\* largest number of attendees of one event
MaxAttendees == 4
\* largest number of events the calendar holds on one day
MaxItems == 1
\* number of requests that reach the OAuth callback server
MaxCallbacks == 2
\* the provider's values lie in locations with offsets -MaxWest .. MaxEast hours
MaxWest == 1
MaxEast == 1

(* Program constants *)

\* 24 * time.Hour, in hours
DayHours == 24
\* the scan loop and the week loop both run for i < 7
WeekLen == 7

----------------------------------------------------------------------------
(* package strings *)

UpperChars == <<"A","B","C","D","E","F","G","H","I","J","K","L","M",
                "N","O","P","Q","R","S","T","U","V","W","X","Y","Z">>
LowerChars == <<"a","b","c","d","e","f","g","h","i","j","k","l","m",
                "n","o","p","q","r","s","t","u","v","w","x","y","z">>

LowerChar(c) ==
    IF \E i \in DOMAIN UpperChars : UpperChars[i] = c
    THEN LowerChars[CHOOSE i \in DOMAIN UpperChars : UpperChars[i] = c]
    ELSE c

\* strings.ToLower
ToLower(s) == [i \in 1..Len(s) |-> LowerChar(s[i])]

----------------------------------------------------------------------------
(* package time *)

\* time.FixedZone: a location with one offset, o hours east of UTC
FixedZone(o) == [before |-> o, at |-> 0, after |-> o]

\* time.UTC
UTC == FixedZone(0)

\* time.Time{}
ZeroTime == [abs |-> 0, loc |-> UTC]

\* the offset in force in location l at instant a
LookupOffset(l, a) == IF a < l.at THEN l.before ELSE l.after

\* the UTC offset of t in its own location
Offset(t) == LookupOffset(t.loc, t.abs)

IsLeap(y) == (y % 4 = 0) /\ ((y % 100 # 0) \/ (y % 400 = 0))

DaysBefore == <<0, 31, 59, 90, 120, 151, 181, 212, 243, 273, 304, 334, 365>>

\* days in month m of year y
DaysIn(m, y) ==
    IF m = 2 /\ IsLeap(y) THEN 29 ELSE DaysBefore[m + 1] - DaysBefore[m]

\* days from 0001-01-01 to y-m-d (proleptic Gregorian calendar)
DaysFromCivil(y, m, d) ==
    LET p == y - 1
    IN  365 * p + (p \div 4) - (p \div 100) + (p \div 400)
        + DaysBefore[m] + (IF m > 2 /\ IsLeap(y) THEN 1 ELSE 0)
        + (d - 1)

\* the instant at which location l shows the wall clock reading w (hours
\* since 0001-01-01 00:00 on the wall): the offset is looked up at w read
\* as UTC and, when the instant it gives lies outside that offset's period,
\* looked up again at that instant
FromWall(w, l) ==
    LET o1 == LookupOffset(l, w)
        utc == w - o1
        inPeriod == (w < l.at) <=> (utc < l.at)
        o2 == IF inPeriod THEN o1 ELSE LookupOffset(l, utc)
    IN  IF o1 # 0 THEN w - o2 ELSE w

\* time.Date(y, m, d, h, 0, 0, 0, l)
Date(y, m, d, h, l) ==
    [abs |-> FromWall(DaysFromCivil(y, m, d) * DayHours + h, l), loc |-> l]

\* the wall clock reading of t in its own location
Wall(t) == t.abs + Offset(t)

\* the calendar day t shows in its own location, in days since 0001-01-01
LocalDay(t) == Wall(t) \div DayHours

\* t.Hour()
Hour(t) == Wall(t) % DayHours

\* t.Weekday(): 0 = Sunday .. 6 = Saturday, read in t's location
Weekday(t) == (LocalDay(t) + 1) % 7

WeekdayNames ==
    << <<"S","u","n","d","a","y">>,
       <<"M","o","n","d","a","y">>,
       <<"T","u","e","s","d","a","y">>,
       <<"W","e","d","n","e","s","d","a","y">>,
       <<"T","h","u","r","s","d","a","y">>,
       <<"F","r","i","d","a","y">>,
       <<"S","a","t","u","r","d","a","y">> >>

\* Weekday.String()
WeekdayString(w) == WeekdayNames[w + 1]

\* time.Monday
Monday == 1

\* t.Date(): the year, month and day t shows in its own location, by the
\* cycles of 400, 100, 4 and 1 years counted from 0001-01-01
CivilOf(t) ==
    LET d0 == LocalDay(t)
        n400 == d0 \div 146097
        d1 == d0 - 146097 * n400
        q100 == d1 \div 36524
        n100 == q100 - (q100 \div 4)
        d2 == d1 - 36524 * n100
        n4 == d2 \div 1461
        d3 == d2 - 1461 * n4
        q1 == d3 \div 365
        n1 == q1 - (q1 \div 4)
        yday == d3 - 365 * n1
        y == 400 * n400 + 100 * n100 + 4 * n4 + n1 + 1
        leapDay == IsLeap(y) /\ yday = 59
        dd == IF IsLeap(y) /\ yday > 59 THEN yday - 1 ELSE yday
        m0 == dd \div 31
        m == IF dd >= DaysBefore[m0 + 2] THEN m0 + 2 ELSE m0 + 1
    IN  IF leapDay THEN [year |-> y, month |-> 2, day |-> 29]
        ELSE [year |-> y, month |-> m, day |-> dd - DaysBefore[m] + 1]

\* t.Truncate(d): rounds the instant down to a multiple of d since the zero
\* time; it works on the absolute time, not on the local presentation
Truncate(t, d) == [t EXCEPT !.abs = t.abs - (t.abs % d)]

\* t.Add(d)
Add(t, d) == [t EXCEPT !.abs = t.abs + d]

\* t.AddDate(0, 0, days): time.Date of t's wall clock reading, days later
AddDate(t, days) ==
    [t EXCEPT !.abs = FromWall(Wall(t) + days * DayHours, t.loc)]

DigitChars == <<"0","1","2","3","4","5","6","7","8","9">>

IsDigit(c) == \E i \in DOMAIN DigitChars : DigitChars[i] = c

DigitVal(c) == (CHOOSE i \in DOMAIN DigitChars : DigitChars[i] = c) - 1

\* the number a run of decimal digits denotes
RECURSIVE Atoi(_)
Atoi(s) ==
    IF s = <<>> THEN 0
    ELSE 10 * Atoi(SubSeq(s, 1, Len(s) - 1)) + DigitVal(s[Len(s)])

\* time.Parse("2006-01-02", s): a four digit year, "-", a two digit month,
\* "-", a two digit day and nothing after it; the month must be 1..12 and
\* the day must exist in that month. The value is midnight UTC of that day.
ParseDate(s) ==
    LET shape == /\ Len(s) = 10
                 /\ \A i \in {1, 2, 3, 4, 6, 7, 9, 10} : IsDigit(s[i])
                 /\ s[5] = "-"
                 /\ s[8] = "-"
        y == Atoi(SubSeq(s, 1, 4))
        m == Atoi(SubSeq(s, 6, 7))
        d == Atoi(SubSeq(s, 9, 10))
    IN  IF shape /\ m >= 1 /\ m <= 12 /\ d >= 1 /\ d <= DaysIn(m, y)
        THEN [ok |-> TRUE, t |-> Date(y, m, d, 0, UTC)]
        ELSE [ok |-> FALSE, t |-> ZeroTime]

----------------------------------------------------------------------------
(* package dateparse *)

\* the string literals of Parse
KwEmpty == <<>>
KwToday == <<"t", "o", "d", "a", "y">>
KwTomorrow == <<"t", "o", "m", "o", "r", "r", "o", "w">>
KwYesterday == <<"y", "e", "s", "t", "e", "r", "d", "a", "y">>
KwWeek == <<"w", "e", "e", "k">>
KwNext == <<"n", "e", "x", "t">>

\* error values: nil, and the two errors Parse constructs
Nil == <<>>
ErrMissing == <<"missing day of week or 'week'">>
ErrInvalid(tok) == <<"invalid day of week: ", tok>>

\* log.Printf("Warning: could not parse date %q, using today", tok)
Warning(tok) == <<"Warning: could not parse date, using today", tok>>

\* ParseResult{}
ZeroResult == [Date |-> ZeroTime, IsWeek |-> FALSE, WeekDays |-> <<>>]

\* getWeekDays with the week filled from monday.AddDate(0, 0, i + 1)
getWeekDaysFromTuesday(start, off) ==
    LET shifted == AddDate(start, off)
        d0 == Monday - Weekday(shifted)
        daysUntilMonday == IF d0 > 0 THEN d0 - 7 ELSE d0
        monday == AddDate(shifted, daysUntilMonday)
    IN  [i \in 1..WeekLen |-> AddDate(monday, i)]

\* daysUntilMonday without the adjustment for a positive difference
daysUntilMondayUnadjusted(shifted) == Monday - Weekday(shifted)

\* getWeekDays' daysUntilMonday for the start date with the offset added
daysUntilMonday(shifted) ==
    LET d0 == Monday - Weekday(shifted)
    IN  IF d0 > 0 THEN d0 - 7 ELSE d0

\* getWeekDays(startDate, offset)
getWeekDays(start, off) ==
    LET shifted == AddDate(start, off)
        monday == AddDate(shifted, daysUntilMonday(shifted))
    IN  [i \in 1..WeekLen |-> AddDate(monday, i - 1)]

\* the loop of Parse's "next <weekday>" branch, from iteration i with the
\* scan date at date: found, or all seven iterations used up
RECURSIVE ScanWeekday(_, _, _)
ScanWeekday(date, weekday, i) ==
    IF i >= WeekLen THEN [found |-> FALSE, date |-> date]
    ELSE IF ToLower(WeekdayString(Weekday(date))) = weekday
         THEN [found |-> TRUE, date |-> date]
         ELSE ScanWeekday(Add(date, DayHours), weekday, i + 1)

\* "today" taken from the wall clock in the location of n
TodayFromWallClock(n) == Truncate([abs |-> wall, loc |-> n.loc], DayHours)

\* the date Parse starts from: p.NowDate().Truncate(24 * time.Hour)
Today(n) == Truncate(n, DayHours)

Return(r, e, l) == [result |-> r, err |-> e, log |-> l]

\* the "next" case returning the working result beside its errors
ParseNextKeepsResult(a, r0) ==
    IF Len(a) < 3 THEN Return(r0, ErrMissing, <<>>)
    ELSE IF ToLower(a[3]) = KwWeek
    THEN Return([r0 EXCEPT !.IsWeek = TRUE,
                           !.WeekDays = getWeekDays(r0.Date, 7)], Nil, <<>>)
    ELSE LET sc == ScanWeekday(r0.Date, ToLower(a[3]), 0)
         IN  IF sc.found
             THEN Return([r0 EXCEPT !.Date = sc.date], Nil, <<>>)
             ELSE Return([r0 EXCEPT !.Date = sc.date], ErrInvalid(a[3]), <<>>)

\* the "next" case returning the advanced scan date beside the invalid
\* weekday error
ParseNextKeepsScanDate(a, r0) ==
    IF Len(a) < 3 THEN Return(ZeroResult, ErrMissing, <<>>)
    ELSE IF ToLower(a[3]) = KwWeek
    THEN Return([r0 EXCEPT !.IsWeek = TRUE,
                           !.WeekDays = getWeekDays(r0.Date, 7)], Nil, <<>>)
    ELSE LET sc == ScanWeekday(r0.Date, ToLower(a[3]), 0)
         IN  Return([r0 EXCEPT !.Date = sc.date],
                    IF sc.found THEN Nil ELSE ErrInvalid(a[3]), <<>>)

\* the "next" case with "next week" leaving the week flag unset
ParseNextForgetsFlag(a, r0) ==
    IF Len(a) < 3 THEN Return(ZeroResult, ErrMissing, <<>>)
    ELSE IF ToLower(a[3]) = KwWeek
    THEN Return([r0 EXCEPT !.WeekDays = getWeekDays(r0.Date, 7)], Nil, <<>>)
    ELSE LET sc == ScanWeekday(r0.Date, ToLower(a[3]), 0)
         IN  IF sc.found
             THEN Return([r0 EXCEPT !.Date = sc.date], Nil, <<>>)
             ELSE Return(ZeroResult, ErrInvalid(a[3]), <<>>)

\* the "next" case of Parse's switch
ParseNext(a, r0) ==
    IF Len(a) < 3 THEN Return(ZeroResult, ErrMissing, <<>>)
    ELSE IF ToLower(a[3]) = KwWeek
    THEN Return([r0 EXCEPT !.IsWeek = TRUE,
                           !.WeekDays = getWeekDays(r0.Date, 7)], Nil, <<>>)
    ELSE LET sc == ScanWeekday(r0.Date, ToLower(a[3]), 0)
         IN  IF sc.found
             THEN Return([r0 EXCEPT !.Date = sc.date], Nil, <<>>)
             ELSE Return(ZeroResult, ErrInvalid(a[3]), <<>>)

\* the default case with the parsed date dropped
ParseExplicitKeepsToday(a, r0) ==
    LET parsed == ParseDate(a[2])
    IN  IF parsed.ok
        THEN Return(r0, Nil, <<>>)
        ELSE Return(r0, Nil, <<Warning(a[2])>>)

\* the default case refusing a token after the date
ParseExplicitRejectsExtra(a, r0) ==
    LET parsed == ParseDate(a[2])
    IN  IF Len(a) > 2 THEN Return(ZeroResult, <<"too many arguments">>, <<>>)
        ELSE IF parsed.ok
        THEN Return([r0 EXCEPT !.Date = parsed.t], Nil, <<>>)
        ELSE Return(r0, Nil, <<Warning(a[2])>>)

\* the default case of Parse's switch
ParseExplicit(a, r0) ==
    LET parsed == ParseDate(a[2])
    IN  IF parsed.ok
        THEN Return([r0 EXCEPT !.Date = parsed.t], Nil, <<>>)
        ELSE Return(r0, Nil, <<Warning(a[2])>>)

\* the switch of Parse reading args[0] in place of args[1]
DispatchOnFirst(a, r0) ==
    IF Len(a) <= 1 THEN Return(r0, Nil, <<>>)
    ELSE CASE a[1] = KwEmpty -> Return(r0, Nil, <<>>)
           [] a[1] = KwToday -> Return(r0, Nil, <<>>)
           [] a[1] = KwTomorrow ->
                Return([r0 EXCEPT !.Date = Add(r0.Date, DayHours)], Nil, <<>>)
           [] a[1] = KwYesterday ->
                Return([r0 EXCEPT !.Date = Add(r0.Date, -DayHours)], Nil, <<>>)
           [] a[1] = KwWeek ->
                Return([r0 EXCEPT !.IsWeek = TRUE,
                                  !.WeekDays = getWeekDays(r0.Date, 0)],
                       Nil, <<>>)
           [] a[1] = KwNext -> ParseNext(a, r0)
           [] OTHER -> ParseExplicit(a, r0)

\* Parse from its length test on: r0 is the local variable result as
\* initialised from the provider's value
Dispatch(a, r0) ==
    IF Len(a) <= 1 THEN Return(r0, Nil, <<>>)
    ELSE CASE a[2] = KwEmpty -> Return(r0, Nil, <<>>)
           [] a[2] = KwToday -> Return(r0, Nil, <<>>)
           [] a[2] = KwTomorrow ->
                Return([r0 EXCEPT !.Date = Add(r0.Date, DayHours)], Nil, <<>>)
           [] a[2] = KwYesterday ->
                Return([r0 EXCEPT !.Date = Add(r0.Date, -DayHours)], Nil, <<>>)
           [] a[2] = KwWeek ->
                Return([r0 EXCEPT !.IsWeek = TRUE,
                                  !.WeekDays = getWeekDays(r0.Date, 0)],
                       Nil, <<>>)
           [] a[2] = KwNext -> ParseNext(a, r0)
           [] OTHER -> ParseExplicit(a, r0)

\* result := ParseResult{Date: p.NowDate().Truncate(24 * time.Hour)} with
\* the provider returning n
InitialResult(n) == [Date |-> Today(n), IsWeek |-> FALSE, WeekDays |-> <<>>]

\* DefaultParser.Parse(args) with the provider returning n
Parse(a, n) == Dispatch(a, InitialResult(n))

----------------------------------------------------------------------------
(* The inputs *)

Users == { <<"e", "v", "e">> }

Tokens1 ==
    { KwEmpty, KwToday, KwTomorrow, KwYesterday, KwWeek, KwNext,
      <<"T", "o", "d", "a", "y">>,
      <<"N", "E", "X", "T">>,
      <<"N", "e", "x", "t">>,
      <<"W", "E", "E", "K">>,
      <<"T", "o", "m", "o", "r", "r", "o", "w">>,
      <<"Y", "e", "s", "t", "e", "r", "d", "a", "y">>,
      <<"m", "o", "n", "d", "a", "y">>,
      <<"2", "0", "2", "5", "-", "1", "2", "-", "2", "5">>,
      <<"2", "0", "2", "4", "-", "0", "2", "-", "2", "9">>,
      <<"2", "0", "2", "5", "-", "0", "2", "-", "2", "9">>,
      <<"2", "0", "2", "5", "-", "1", "3", "-", "0", "1">>,
      <<"2", "0", "2", "5", "-", "1", "-", "5">>,
      <<"2", "0", "2", "5", "-", "0", "1", "-", "0", "1", "x">>,
      <<"n", "o", "t", "-", "a", "-", "d", "a", "t", "e">> }

Tokens2 ==
    { ToLower(WeekdayNames[i]) : i \in 1..7 }
    \cup { WeekdayNames[i] : i \in 1..7 }
    \cup { <<"F", "R", "I", "D", "A", "Y">>,
           <<"s", "U", "n", "D", "a", "Y">>,
           KwWeek,
           <<"W", "e", "e", "k">>,
           <<"W", "E", "E", "K">>,
           <<"f", "u", "n", "d", "a", "y">>,
           <<"m", "o", "n">>,
           <<"e", "x", "t", "r", "a">>,
           <<>> }

\* token[1] values that are followed by a token[2] in the model
Heads3 ==
    { KwNext, <<"N", "E", "X", "T">>, <<"N", "e", "x", "t">>,
      <<"2", "0", "2", "5", "-", "1", "2", "-", "2", "5">>, KwWeek }

\* the arguments of the "Too many arguments" test case
TooManyArgs ==
    << <<"e", "v", "e">>,
       <<"2", "0", "2", "5", "-", "0", "1", "-", "0", "1">>,
       <<"e", "x", "t", "r", "a">> >>

ArgSeqs ==
    { <<>> }
    \cup { <<u>> : u \in Users }
    \cup { <<u, t1>> : u \in Users, t1 \in Tokens1 }
    \cup { <<u, t1, t2>> : u \in Users, t1 \in Heads3, t2 \in Tokens2 }
    \cup { TooManyArgs }

\* other values of token[0]: a second username, an empty one, and two that
\* spell keywords
OtherFirst ==
    { <<"b", "o", "b", "@", "x">>, <<>>, KwTomorrow, KwNext }

\* the first calendar day of the provider's values: Monday 2025-03-24
NowBase == DaysFromCivil(2025, 3, 24)

\* Atlantic/Azores in spring 2025: UTC-1 until Sunday 2025-03-30 01:00 UTC,
\* UTC+0 from then on
Azores ==
    [before |-> -1, at |-> DaysFromCivil(2025, 3, 30) * DayHours + 1, after |-> 0]

\* the locations of the provider's values (time.Local of the machine)
Locations == { FixedZone(o) : o \in (-MaxWest)..MaxEast } \cup { Azores }

\* the values the now provider can return: every hour of NowDays consecutive
\* days, in each location
Nows ==
    { [abs |-> (NowBase + d) * DayHours + h, loc |-> l] :
        d \in 0..(NowDays - 1), h \in 0..(DayHours - 1), l \in Locations }

----------------------------------------------------------------------------
(* The state machine: one call of Parse *)

\* the functions checked on their own are not running
FnIdle ==
    /\ username = <<>>
    /\ defaultDomain = <<>>
    /\ calendarID = <<>>
    /\ startDate = ZeroTime
    /\ offset = 0
    /\ untilMonday = 0
    /\ weekDays = <<>>
    /\ attendees = <<>>
    /\ who = <<>>
    /\ compact = <<>>

\* the callback requests: none has arrived
NoRequests ==
    [h \in 1..MaxCallbacks |-> [pc |-> "none", state |-> "", code |-> ""]]

\* no token is being loaded or obtained
TokenIdle ==
    /\ stored = "missing"
    /\ saved = <<>>
    /\ token = <<>>
    /\ tokErr = Nil
    /\ state = ""
    /\ listening = FALSE
    /\ handlers = NoRequests
    /\ authCode = ""
    /\ exchanged = <<>>

\* nothing of package gcal is running
GcalIdle ==
    /\ day = 0
    /\ trace = <<>>
    /\ listErr = Nil

\* Parse and run are not running
ParseIdle ==
    /\ args = <<>>
    /\ now = ZeroTime
    /\ provider = "injected"
    /\ wall = 0
    /\ result = ZeroResult
    /\ err = Nil
    /\ log = <<>>
    /\ nowCalls = 0
    /\ seen = <<>>
    /\ returns = <<>>
    /\ effects = <<>>
    /\ runErr = Nil

\* p.NowDate(): the injected function's value, or the one New() installs,
\* time.Now().Truncate(24 * time.Hour), with now.loc standing for time.Local
NowDate ==
    IF provider = "injected" THEN now
    ELSE Truncate([abs |-> wall, loc |-> now.loc], DayHours)

\* one finished call: its return values and the wall clock at the return
Returns(r, e) == [result |-> r, err |-> e, wall |-> wall]

Init ==
    /\ FnIdle
    /\ TokenIdle
    /\ GcalIdle
    /\ args \in ArgSeqs
    /\ now \in Nows
    /\ provider = "injected"
    /\ wall = now.abs
    /\ pc = "call"
    /\ result = ZeroResult
    /\ err = Nil
    /\ log = <<>>
    /\ nowCalls = 0
    /\ seen = <<>>
    /\ returns = <<>>
    /\ effects = <<>>
    /\ runErr = Nil

\* result, err := parser.Parse(args)
Call ==
    /\ UNCHANGED <<fnVars, gcalVars, tokenVars>>
    /\ pc = "call"
    /\ LET n == NowDate
           r == Parse(args, n)
       IN  /\ result' = r.result
           /\ err' = r.err
           /\ log' = log \o r.log
           /\ seen' = Append(seen, n)
           /\ returns' = Append(returns, Returns(r.result, r.err))
    /\ nowCalls' = nowCalls + 1
    /\ pc' = "returned"
    /\ UNCHANGED <<args, now, provider, wall, effects, runErr>>

Next == Call

Spec == Init /\ [][Next]_vars

----------------------------------------------------------------------------
(* The state machine of Parse against its clock: Parse runs in two steps,  *)
(* the provider call and the switch, the wall clock advances and an        *)
(* injected provider changes its value at any point, and a parser is       *)
(* called up to MaxCalls times with the same arguments.                    *)

\* hours the wall clock advances in one step: half a day
TickHours == DayHours \div 2

\* the wall clock at the start: Monday 2025-03-24 10:00 UTC
WallStart == NowBase * DayHours + 10

ClockTokens1 ==
    { KwTomorrow, KwWeek,
      <<"2", "0", "2", "5", "-", "1", "2", "-", "2", "5">>,
      <<"n", "o", "t", "-", "a", "-", "d", "a", "t", "e">> }

ClockTokens2 ==
    { <<"F", "r", "i", "d", "a", "y">>, KwWeek, <<"f", "u", "n", "d", "a", "y">> }

\* the token sequences of the clock runs: every branch of the switch
ClockArgs ==
    { a \in ArgSeqs :
        \/ Len(a) = 1
        \/ Len(a) = 2 /\ a[2] \in ClockTokens1 \cup {KwNext}
        \/ Len(a) = 3 /\ a[2] = KwNext /\ a[3] \in ClockTokens2 }

\* the values an injected provider returns in the clock runs
ClockNows ==
    { n \in Nows :
        n.abs \in { WallStart, WallStart + TickHours, WallStart + 2 * TickHours } }

InitClock ==
    /\ FnIdle
    /\ TokenIdle
    /\ GcalIdle
    /\ args \in ClockArgs
    /\ provider \in {"injected", "default"}
    /\ now \in ClockNows
    /\ provider = "default" => now.abs = WallStart
    /\ wall = WallStart
    /\ pc = "call"
    /\ result = ZeroResult
    /\ err = Nil
    /\ log = <<>>
    /\ nowCalls = 0
    /\ seen = <<>>
    /\ returns = <<>>
    /\ effects = <<>>
    /\ runErr = Nil

\* the switch reading the provider again in place of result.Date
resultDateFromProvider == Today(NowDate)

\* the date the switch reads as "now": the field of the local variable
\* result, set once before the switch
resultDate == result.Date

\* result := ParseResult{Date: p.NowDate().Truncate(24 * time.Hour)}
Begin ==
    /\ UNCHANGED <<fnVars, gcalVars, tokenVars>>
    /\ pc = "call"
    /\ result' = InitialResult(NowDate)
    /\ seen' = Append(seen, NowDate)
    /\ nowCalls' = nowCalls + 1
    /\ pc' = "switch"
    /\ UNCHANGED <<args, now, provider, wall, err, log, returns, effects, runErr>>

\* the length test, the switch and the return
Finish ==
    /\ UNCHANGED <<fnVars, gcalVars, tokenVars>>
    /\ pc = "switch"
    /\ LET r == Dispatch(args, [result EXCEPT !.Date = resultDate])
       IN  /\ result' = r.result
           /\ err' = r.err
           /\ log' = log \o r.log
           /\ returns' = Append(returns, Returns(r.result, r.err))
    /\ pc' = "returned"
    /\ UNCHANGED <<args, now, provider, wall, nowCalls, seen, effects, runErr>>

\* the caller calls Parse again with the same arguments
Again ==
    /\ UNCHANGED <<fnVars, gcalVars, tokenVars>>
    /\ pc = "returned"
    /\ Len(returns) < MaxCalls
    /\ pc' = "call"
    /\ result' = ZeroResult
    /\ err' = Nil
    /\ UNCHANGED <<args, now, provider, wall, log, nowCalls, seen, returns,
                   effects, runErr>>

\* time passes
Tick ==
    /\ UNCHANGED <<fnVars, gcalVars, tokenVars>>
    /\ wall < WallStart + MaxTicks * TickHours
    /\ wall' = wall + TickHours
    /\ UNCHANGED <<args, now, provider, pc, result, err, log, nowCalls, seen,
                   returns, effects, runErr>>

\* the injected function returns another value from now on
Reinject ==
    /\ UNCHANGED <<fnVars, gcalVars, tokenVars>>
    /\ provider = "injected"
    /\ \E n \in ClockNows :
          /\ n.loc = now.loc
          /\ n # now
          /\ now' = n
    /\ UNCHANGED <<args, provider, wall, pc, result, err, log, nowCalls, seen,
                   returns, effects, runErr>>

NextClock == Begin \/ Finish \/ Again \/ Tick \/ Reinject

SpecClock == InitClock /\ [][NextClock]_vars

----------------------------------------------------------------------------
(* The state machine of run: the caller of Parse *)

\* the wall clock when run starts: 10:00 UTC of each modelled day
RunWalls == { (NowBase + d) * DayHours + 10 : d \in 0..(NowDays - 1) }

\* fmt.Errorf("<call>: %w", err) for a failure of one of run's calls
Wrapped(call) == <<call, ": ", "error">>

InitRun ==
    /\ FnIdle
    /\ TokenIdle
    /\ GcalIdle
    /\ args \in ArgSeqs
    /\ provider = "default"
    /\ now \in { n \in Nows : n.abs = WallStart }
    /\ wall \in RunWalls
    /\ pc = "run"
    /\ result = ZeroResult
    /\ err = Nil
    /\ log = <<>>
    /\ nowCalls = 0
    /\ seen = <<>>
    /\ returns = <<>>
    /\ effects = <<>>
    /\ runErr = Nil

\* one of run's calls outside dateparse: it fails, and run returns the
\* wrapped error, or it succeeds and run goes on at label next
External(call, next) ==
    /\ UNCHANGED <<fnVars, gcalVars, tokenVars>>
    /\ effects' = Append(effects, call)
    /\ \/ /\ runErr' = Wrapped(call)
          /\ pc' = "exit"
       \/ /\ runErr' = runErr
          /\ pc' = next
    /\ UNCHANGED <<args, now, provider, wall, result, err, log, nowCalls, seen,
                   returns>>

\* loader, err := config.NewFileLoader()
RunNewFileLoader ==
    /\ pc = "run"
    /\ External("config.NewFileLoader", "loadConfig")

\* configData, err := loader.LoadConfig()
RunLoadConfig ==
    /\ pc = "loadConfig"
    /\ External("loader.LoadConfig", "parse")

\* where run continues after Parse returned e, letting every e through
AfterParseIgnoresErr(e) == "service"

\* if err != nil { return err }
AfterParse(e) == IF e # Nil THEN "exit" ELSE "service"

\* parser := dateparse.New(); ... err := parser.Parse(args)
RunParse ==
    /\ UNCHANGED <<fnVars, gcalVars, tokenVars>>
    /\ pc = "parse"
    /\ LET n == NowDate
           r == Parse(args, n)
       IN  /\ result' = r.result
           /\ err' = r.err
           /\ log' = log \o r.log
           /\ seen' = Append(seen, n)
           /\ returns' = Append(returns, Returns(r.result, r.err))
           /\ pc' = AfterParse(r.err)
           /\ runErr' = IF AfterParse(r.err) = "exit" THEN r.err ELSE runErr
    /\ nowCalls' = nowCalls + 1
    /\ UNCHANGED <<args, now, provider, wall, effects>>

\* gcalService, err := gcal.NewGCalService(loader)
RunNewGCalService ==
    /\ pc = "service"
    /\ External("gcal.NewGCalService", "list")

\* gcal.ListAndPrintEvents(...), then return nil
RunListAndPrintEvents ==
    /\ pc = "list"
    /\ External("gcal.ListAndPrintEvents", "exit")

NextRun ==
    \/ RunNewFileLoader
    \/ RunLoadConfig
    \/ RunParse
    \/ RunNewGCalService
    \/ RunListAndPrintEvents

SpecRun == InitRun /\ [][NextRun]_vars

----------------------------------------------------------------------------
(* buildCalendarID (package main) *)

\* containsAt(s)
containsAt(s) == \E i \in DOMAIN s : s[i] = "@"

\* buildCalendarID appending the domain to every username
buildCalendarIDAlwaysAppends(name, domain) == name \o <<"@">> \o domain

\* buildCalendarID(username, configData) with configData.DefaultDomain = domain
buildCalendarID(name, domain) ==
    IF containsAt(name) THEN name
    ELSE name \o <<"@">> \o domain

\* usernames given on the command line: plain, full addresses, and the edge
\* cases around '@'
Usernames ==
    { <<"e", "v", "e">>,
      <<"b", "o", "b", ".", "s">>,
      <<"e", "v", "e", "@", "x", ".", "n", "o">>,
      <<"e", "v", "e", "@">>,
      <<"@", "x", ".", "n", "o">>,
      <<"@">>,
      <<"a", "@", "b", "@", "c">>,
      <<"x", ".", "n", "o">>,
      <<"E">>,
      <<>> }

\* values of default_domain in config.json
Domains ==
    { <<"x", ".", "n", "o">>,
      <<"e", "x", "a", "m", "p", "l", "e", ".", "c", "o", "m">>,
      <<"a", "@", "b">>,
      <<"@">>,
      <<"n", "o">>,
      <<>> }

InitCalendarID ==
    /\ ParseIdle
    /\ TokenIdle
    /\ GcalIdle
    /\ pc = "build"
    /\ username \in Usernames
    /\ defaultDomain \in Domains
    /\ calendarID = <<>>
    /\ startDate = ZeroTime
    /\ offset = 0
    /\ untilMonday = 0
    /\ weekDays = <<>>
    /\ attendees = <<>>
    /\ who = <<>>
    /\ compact = <<>>

\* fullCalendarID := buildCalendarID(username, configData)
BuildCalendarID ==
    /\ pc = "build"
    /\ calendarID' = buildCalendarID(username, defaultDomain)
    /\ pc' = "built"
    /\ UNCHANGED <<username, defaultDomain, startDate, offset, untilMonday, weekDays,
                   attendees, who, compact>>
    /\ UNCHANGED <<args, now, provider, wall, result, err, log, nowCalls, seen,
                   returns, effects, runErr>>
    /\ UNCHANGED <<gcalVars, tokenVars>>

\* buildCalendarID applied to its own output
BuildCalendarIDAgain ==
    /\ pc = "built"
    /\ username' = calendarID
    /\ calendarID' = buildCalendarID(calendarID, defaultDomain)
    /\ pc' = "rebuilt"
    /\ UNCHANGED <<defaultDomain, startDate, offset, untilMonday, weekDays,
                   attendees, who, compact>>
    /\ UNCHANGED <<args, now, provider, wall, result, err, log, nowCalls, seen,
                   returns, effects, runErr>>
    /\ UNCHANGED <<gcalVars, tokenVars>>

NextCalendarID == BuildCalendarID \/ BuildCalendarIDAgain

SpecCalendarID == InitCalendarID /\ [][NextCalendarID]_vars

----------------------------------------------------------------------------
(* getWeekDays on its own: every base weekday, every offset *)

\* the start dates: midnight UTC, noon and the last hour of each modelled day
WeekBases == { n \in Nows : n.abs % DayHours \in {0, 12, 23} }

\* the day offsets: MaxOffset days either way
Offsets == (-MaxOffset)..MaxOffset

InitWeekDays ==
    /\ ParseIdle
    /\ TokenIdle
    /\ GcalIdle
    /\ pc = "week"
    /\ username = <<>>
    /\ defaultDomain = <<>>
    /\ calendarID = <<>>
    /\ startDate \in WeekBases
    /\ offset \in Offsets
    /\ untilMonday = 0
    /\ weekDays = <<>>
    /\ attendees = <<>>
    /\ who = <<>>
    /\ compact = <<>>

\* weekDays := getWeekDays(startDate, offset)
GetWeekDays ==
    /\ pc = "week"
    /\ untilMonday' = daysUntilMonday(AddDate(startDate, offset))
    /\ weekDays' = getWeekDays(startDate, offset)
    /\ pc' = "weekDone"
    /\ UNCHANGED <<username, defaultDomain, calendarID, startDate, offset,
                   attendees, who, compact>>
    /\ UNCHANGED <<args, now, provider, wall, result, err, log, nowCalls, seen,
                   returns, effects, runErr>>
    /\ UNCHANGED <<gcalVars, tokenVars>>

NextWeekDays == GetWeekDays

SpecWeekDays == InitWeekDays /\ [][NextWeekDays]_vars

----------------------------------------------------------------------------
(* compactAttendees (package gcal) *)

\* the number of names after which compactAttendees stops
ListLimit == 3

\* the marker appended when the loop stops early
Ellipsis == <<".", ".", ".">>

\* strings.TrimSuffix(s, suffix)
TrimSuffix(s, suffix) ==
    IF /\ Len(s) >= Len(suffix)
       /\ SubSeq(s, Len(s) - Len(suffix) + 1, Len(s)) = suffix
    THEN SubSeq(s, 1, Len(s) - Len(suffix))
    ELSE s

\* strings.Join(elems, ", ")
RECURSIVE Join(_)
Join(elems) ==
    IF elems = <<>> THEN <<>>
    ELSE IF Len(elems) = 1 THEN elems[1]
    ELSE elems[1] \o <<",", " ">> \o Join(Tail(elems))

\* the loop of compactAttendees from attendee i on, with w collected so far
RECURSIVE Collect(_, _, _, _, _)
Collect(as, self, homeDomain, i, w) ==
    IF i > Len(as) THEN w
    ELSE IF as[i] = self THEN Collect(as, self, homeDomain, i + 1, w)
    ELSE LET short == TrimSuffix(as[i], <<"@">> \o homeDomain)
             w1 == Append(w, short)
         IN  IF Len(w1) >= ListLimit THEN Append(w1, Ellipsis)
             ELSE Collect(as, self, homeDomain, i + 1, w1)

\* the addresses of the attendees: four in the home domain x.no, one of them
\* the usual owner, and one outside
Emails ==
    { <<"e", "v", "e", "@", "x", ".", "n", "o">>,
      <<"a", "@", "x", ".", "n", "o">>,
      <<"b", "@", "x", ".", "n", "o">>,
      <<"c", "@", "x", ".", "n", "o">>,
      <<"d", "@", "y", ".", "s", "e">> }

\* item.Attendees of up to MaxAttendees attendees
RECURSIVE AttendeeLists(_)
AttendeeLists(n) ==
    IF n = 0 THEN { <<>> }
    ELSE LET shorter == AttendeeLists(n - 1)
         IN  shorter \cup { Append(l, e) : l \in shorter, e \in Emails }

InitAttendees ==
    /\ ParseIdle
    /\ TokenIdle
    /\ GcalIdle
    /\ pc = "compact"
    /\ username = <<>>
    /\ defaultDomain \in { <<"x", ".", "n", "o">>, <<"y", ".", "s", "e">> }
    /\ calendarID \in { <<"e", "v", "e", "@", "x", ".", "n", "o">>,
                        <<"d", "@", "y", ".", "s", "e">> }
    /\ startDate = ZeroTime
    /\ offset = 0
    /\ untilMonday = 0
    /\ weekDays = <<>>
    /\ attendees \in AttendeeLists(MaxAttendees)
    /\ who = <<>>
    /\ compact = <<>>

\* compactAttendees(item.Attendees, calendarID, defaultDomain)
CompactAttendees ==
    /\ pc = "compact"
    /\ LET w == IF Len(attendees) = 0 THEN <<>>
                ELSE Collect(attendees, calendarID, defaultDomain, 1, <<>>)
       IN  /\ who' = w
           /\ compact' = Join(w)
    /\ pc' = "compacted"
    /\ UNCHANGED <<username, defaultDomain, calendarID, startDate, offset,
                   untilMonday, weekDays, attendees>>
    /\ UNCHANGED <<args, now, provider, wall, result, err, log, nowCalls, seen,
                   returns, effects, runErr>>
    /\ UNCHANGED <<gcalVars, tokenVars>>

NextAttendees == CompactAttendees

SpecAttendees == InitAttendees /\ [][NextAttendees]_vars

----------------------------------------------------------------------------
(* ListAndPrintEventsForWeek (package gcal) against a CalendarService that *)
(* answers each ListEvents call with an error or with the day's events     *)

\* the error a failing ListEvents call returns
ErrListEvents == <<"retrieving events: ", "error">>

\* the week sequences of week-mode results: "week" and "next week" asked on
\* each modelled day
Weeks == { getWeekDays(Today(n), o) : n \in WeekBases, o \in {0, WeekLen} }

\* s.ListEvents(calendarID, theDate)
Query(date, ok) == [kind |-> "query", date |-> date, ok |-> ok]

\* one printed line: kind "week" is the header of the week, "day" the
\* per-day header, "item" one event and "none" the line "No events found."
Line(kind, date) == [kind |-> kind, date |-> date, ok |-> TRUE]

\* the lines ListAndPrintEventsForWeekDay prints for a day with n events
DayLines(date, n) ==
    <<Line("day", date)>>
        \o (IF n = 0 THEN <<Line("none", date)>>
            ELSE [i \in 1..n |-> Line("item", date)])

\* where the function continues after a failed ListEvents call, going on
\* with the loop
AfterFailureGoesOn == "weekDay"

\* if err != nil { return err }
AfterFailure == "exit"

\* the loop of ListAndPrintEventsForWeek ending one day early
AfterDayEndsEarly(d) == IF d >= WeekLen - 1 THEN "exit" ELSE "weekDay"

\* for _, day := range weekDays, then return nil
AfterDay(d) == IF d >= WeekLen THEN "exit" ELSE "weekDay"

InitWeekList ==
    /\ ParseIdle
    /\ TokenIdle
    /\ pc = "weekList"
    /\ username = <<>>
    /\ defaultDomain = <<>>
    /\ calendarID = <<>>
    /\ startDate = ZeroTime
    /\ offset = 0
    /\ untilMonday = 0
    /\ weekDays \in Weeks
    /\ attendees = <<>>
    /\ who = <<>>
    /\ compact = <<>>
    /\ day = 0
    /\ trace = <<>>
    /\ listErr = Nil

\* firstDayEvents, err := s.ListEvents(calendarID, weekDays[0]) and the
\* header of the week
ListWeekFirst ==
    /\ pc = "weekList"
    /\ day' = 1
    /\ \/ /\ trace' = Append(trace, Query(weekDays[1], FALSE))
          /\ listErr' = ErrListEvents
          /\ pc' = AfterFailure
       \/ /\ trace' = trace \o <<Query(weekDays[1], TRUE), Line("week", weekDays[1])>>
          /\ listErr' = listErr
          /\ pc' = "weekDay"
    /\ UNCHANGED <<parseVarsButPc, fnVars, tokenVars>>

\* one iteration of the loop: ListAndPrintEventsForWeekDay(s, calendarID,
\* day, ...), which calls ListEvents and prints the day
ListWeekDay ==
    /\ pc = "weekDay"
    /\ day <= WeekLen
    /\ day' = day + 1
    /\ \/ /\ trace' = Append(trace, Query(weekDays[day], FALSE))
          /\ listErr' = ErrListEvents
          /\ pc' = AfterFailure
       \/ \E n \in 0..MaxItems :
            /\ trace' = Append(trace, Query(weekDays[day], TRUE))
                            \o DayLines(weekDays[day], n)
            /\ listErr' = listErr
            /\ pc' = AfterDay(day)
    /\ UNCHANGED <<parseVarsButPc, fnVars, tokenVars>>

NextWeekList == ListWeekFirst \/ ListWeekDay

SpecWeekList == InitWeekList /\ [][NextWeekList]_vars

----------------------------------------------------------------------------
(* loadOrObtainToken and getTokenFromWeb (package gcal): the main          *)
(* goroutine and one handler goroutine per callback request                *)

\* values of randomString(16)
States == {"s1", "s2"}

\* the state parameter of a callback request: one of the values above, or
\* empty when the parameter is missing
StateParams == States \cup {""}

\* the code parameter of a callback request
Codes == {"c1", "c2"}

\* the token conf.Exchange returns for a code
TokenFor(code) == <<"token", code>>

ErrUnmarshal == <<"unmarshalling token: ", "error">>
ErrCredentials == <<"unable to parse client secret file to config: ", "error">>
ErrExchange == <<"unable to retrieve token from web: ", "error">>
ErrSaveToken == <<"unable to save token: ", "error">>

InitToken ==
    /\ ParseIdle
    /\ FnIdle
    /\ GcalIdle
    /\ pc = "loadToken"
    /\ stored \in {"missing", "valid", "corrupt"}
    /\ saved = <<>>
    /\ token = <<>>
    /\ tokErr = Nil
    /\ state = ""
    /\ listening = FALSE
    /\ handlers = NoRequests
    /\ authCode = ""
    /\ exchanged = <<>>

\* what is left alone by every step of the token functions
TokenFrame == UNCHANGED <<parseVarsButPc, fnVars, gcalVars, stored>>

\* where loadOrObtainToken continues when the stored token does not parse,
\* falling back to the web flow
AfterUnmarshalErrorFallsBack == "web"

\* return nil, fmt.Errorf("unmarshalling token: %w", err)
AfterUnmarshalError == "tokenDone"

\* tokenBytes, err := loader.LoadToken() and, when it loaded, json.Unmarshal
LoadToken ==
    /\ pc = "loadToken"
    /\ \/ /\ stored = "missing"
          /\ pc' = "web"
          /\ UNCHANGED <<token, tokErr>>
       \/ /\ stored = "valid"
          /\ token' = <<"token", "stored">>
          /\ pc' = "tokenDone"
          /\ UNCHANGED tokErr
       \/ /\ stored = "corrupt"
          /\ tokErr' = ErrUnmarshal
          /\ pc' = AfterUnmarshalError
          /\ UNCHANGED token
    /\ UNCHANGED <<saved, state, listening, handlers, authCode, exchanged>>
    /\ TokenFrame

\* getTokenFromWeb up to the receive: the configuration is parsed, the
\* state is drawn, the handler is registered and the server is started
WebStart ==
    /\ pc = "web"
    /\ \/ /\ tokErr' = ErrCredentials
          /\ pc' = "tokenDone"
          /\ UNCHANGED <<state, listening>>
       \/ /\ state' \in States
          /\ listening' = TRUE
          /\ pc' = "await"
          /\ UNCHANGED tokErr
    /\ UNCHANGED <<saved, token, handlers, authCode, exchanged>>
    /\ TokenFrame

\* a request reaches the server, which starts a handler goroutine for it
Arrive(h) ==
    /\ listening
    /\ handlers[h].pc = "none"
    /\ \E st \in StateParams, c \in Codes :
          handlers' = [handlers EXCEPT ![h] = [pc |-> "check", state |-> st, code |-> c]]
    /\ UNCHANGED <<pc, saved, token, tokErr, state, listening, authCode, exchanged>>
    /\ TokenFrame

\* the handler up to its channel send: the state test and the reply
Check(h) ==
    /\ handlers[h].pc = "check"
    /\ handlers' = [handlers EXCEPT
                      ![h].pc = IF handlers[h].state # state THEN "rejected" ELSE "send"]
    /\ UNCHANGED <<pc, saved, token, tokErr, state, listening, authCode, exchanged>>
    /\ TokenFrame

\* codeCh <- code in a handler meets authCode := <-codeCh in the main
\* goroutine: the channel is unbuffered
Deliver(h) ==
    /\ pc = "await"
    /\ handlers[h].pc = "send"
    /\ authCode' = handlers[h].code
    /\ handlers' = [handlers EXCEPT ![h].pc = "done"]
    /\ pc' = "shutdown"
    /\ UNCHANGED <<saved, token, tokErr, state, listening, exchanged>>
    /\ TokenFrame

\* srv.Shutdown(ctx): the listener is closed; handlers still running are
\* waited for until the context's deadline and then left alone
Shutdown ==
    /\ pc = "shutdown"
    /\ listening' = FALSE
    /\ pc' = "exchange"
    /\ UNCHANGED <<saved, token, tokErr, state, handlers, authCode, exchanged>>
    /\ TokenFrame

\* tok, err := conf.Exchange(ctx, authCode, ...)
Exchange ==
    /\ pc = "exchange"
    /\ exchanged' = Append(exchanged, authCode)
    /\ \/ /\ tokErr' = ErrExchange
          /\ pc' = "tokenDone"
          /\ UNCHANGED token
       \/ /\ token' = TokenFor(authCode)
          /\ pc' = "save"
          /\ UNCHANGED tokErr
    /\ UNCHANGED <<saved, state, listening, handlers, authCode>>
    /\ TokenFrame

\* json.Marshal(tok) and loader.SaveToken(tokenBytes)
SaveToken ==
    /\ pc = "save"
    /\ \/ /\ tokErr' = ErrSaveToken
          /\ token' = <<>>
          /\ UNCHANGED saved
       \/ /\ saved' = Append(saved, token)
          /\ UNCHANGED <<token, tokErr>>
    /\ pc' = "tokenDone"
    /\ UNCHANGED <<state, listening, handlers, authCode, exchanged>>
    /\ TokenFrame

NextToken ==
    \/ LoadToken
    \/ WebStart
    \/ \E h \in 1..MaxCallbacks : Arrive(h)
    \/ \E h \in 1..MaxCallbacks : Check(h)
    \/ \E h \in 1..MaxCallbacks : Deliver(h)
    \/ Shutdown
    \/ Exchange
    \/ SaveToken

\* every goroutine that can take a step eventually takes one; requests
\* need not arrive
SpecToken ==
    /\ InitToken
    /\ [][NextToken]_vars
    /\ WF_vars(LoadToken)
    /\ WF_vars(WebStart)
    /\ \A h \in 1..MaxCallbacks : WF_vars(Check(h))
    /\ \A h \in 1..MaxCallbacks : WF_vars(Deliver(h))
    /\ WF_vars(Shutdown)
    /\ WF_vars(Exchange)
    /\ WF_vars(SaveToken)

----------------------------------------------------------------------------
(* Vocabulary of the properties *)

Returned == pc = "returned"

\* the lower-case full English weekday names
LowerWeekdays == { ToLower(WeekdayNames[i]) : i \in 1..7 }

\* calendar date of a minus calendar date of b, in days, each read in its
\* own location
DaysBetween(a, b) == LocalDay(a) - LocalDay(b)

IsNextWeekday ==
    /\ Len(args) = 3
    /\ args[2] = KwNext
    /\ ToLower(args[3]) \in LowerWeekdays

----------------------------------------------------------------------------
(* C1: for a token sequence of length 0 or 1, or with token[1] empty or    *)
(* "today", Parse succeeds and returns the single date equal to the now    *)
(* provider's date, week mode unset.                                       *)
C1_TodayIsNow ==
    (Returned /\ (Len(args) <= 1 \/ args[2] \in {KwEmpty, KwToday}))
        => /\ err = Nil
           /\ DaysBetween(result.Date, now) = 0
           /\ result.IsWeek = FALSE
           /\ result.WeekDays = <<>>

(* C2: "tomorrow" returns now + 1 day and "yesterday" returns now - 1 day, *)
(* both as a single date with week mode unset and no error.                *)
C2_TomorrowYesterday ==
    (Returned /\ Len(args) >= 2 /\ args[2] \in {KwTomorrow, KwYesterday})
        => /\ err = Nil
           /\ DaysBetween(result.Date, now)
                = (IF args[2] = KwTomorrow THEN 1 ELSE -1)
           /\ result.IsWeek = FALSE
           /\ result.WeekDays = <<>>

(* C3: "next W" for a weekday name W in any letter case succeeds with the  *)
(* earliest date d >= now whose weekday is W: d is one of now .. now+6,    *)
(* week mode unset.                                                        *)
C3_NextWeekdayEarliest ==
    (Returned /\ IsNextWeekday)
        => /\ err = Nil
           /\ ToLower(WeekdayString(Weekday(result.Date))) = ToLower(args[3])
           /\ DaysBetween(result.Date, now) \in 0..6
           /\ result.IsWeek = FALSE

(* C4: same-day inclusion: when now itself falls on weekday W, "next W"    *)
(* returns now's date, not the date seven days later.                      *)
C4_SameDayInclusion ==
    (Returned /\ IsNextWeekday
        /\ ToLower(WeekdayString(Weekday(now))) = ToLower(args[3]))
        => /\ err = Nil
           /\ DaysBetween(result.Date, now) = 0

(* C5: the week "next week" returns starts on the Monday one day after the *)
(* Sunday of the week containing now: strictly after now, and sharing no   *)
(* date with the week "week" returns.                                      *)
C5_NextWeekFollows ==
    (Returned /\ Len(args) = 3 /\ args[2] = KwNext /\ args[3] = KwWeek)
        => LET sundayOfNow == LocalDay(now) + ((7 - Weekday(now)) % 7)
               thisWeek == Parse(<<args[1], KwWeek>>, now).result.WeekDays
           IN  /\ err = Nil
               /\ result.IsWeek
               /\ LocalDay(result.WeekDays[1]) = sundayOfNow + 1
               /\ LocalDay(result.WeekDays[1]) > LocalDay(now)
               /\ \A i \in DOMAIN result.WeekDays, j \in DOMAIN thisWeek :
                      LocalDay(result.WeekDays[i]) # LocalDay(thisWeek[j])

(* C6: the seven dates "week" returns contain now: its Monday is on or     *)
(* before now and its Sunday is on or after now.                           *)
C6_WeekContainsNow ==
    (Returned /\ Len(args) >= 2 /\ args[2] = KwWeek)
        => /\ err = Nil
           /\ result.IsWeek
           /\ Len(result.WeekDays) = 7
           /\ LocalDay(result.WeekDays[1]) <= LocalDay(now)
           /\ LocalDay(result.WeekDays[7]) >= LocalDay(now)

(* C7: whenever Parse returns with week mode set, the week sequence has    *)
(* exactly 7 dates, each one day after the previous one, the first a       *)
(* Monday and the last a Sunday.                                           *)
C7_WeekShape ==
    (Returned /\ result.IsWeek)
        => /\ Len(result.WeekDays) = 7
           /\ \A i \in 1..6 :
                DaysBetween(result.WeekDays[i + 1], result.WeekDays[i]) = 1
           /\ Weekday(result.WeekDays[1]) = 1
           /\ Weekday(result.WeekDays[7]) = 0

\* "next week" asked on a Sunday
C7_Witness ==
    /\ Returned /\ result.IsWeek
    /\ args[2] = KwNext
    /\ Weekday(Today(now)) = 0
    /\ Len(result.WeekDays) = 7

(* C8: when token[1] is a valid YYYY-MM-DD string, Parse returns exactly   *)
(* that calendar date as the single result, week mode unset, and the       *)
(* result is the same for every value of now.                              *)
C8_ExplicitDate ==
    (Returned /\ Len(args) >= 2 /\ ParseDate(args[2]).ok)
        => /\ err = Nil
           /\ CivilOf(result.Date)
                = [year |-> Atoi(SubSeq(args[2], 1, 4)),
                   month |-> Atoi(SubSeq(args[2], 6, 7)),
                   day |-> Atoi(SubSeq(args[2], 9, 10))]
           /\ result.IsWeek = FALSE
           /\ result.WeekDays = <<>>
           /\ log = <<>>
           /\ Hour(result.Date) = 0
           /\ result.Date.loc = UTC
           /\ \A k \in 1..NowDays :
                Parse(args, Add(now, k * DayHours + 12)).result = result

\* the leap day 2024-02-29 was parsed
C8_Witness ==
    /\ Returned /\ Len(args) >= 2 /\ ParseDate(args[2]).ok
    /\ CivilOf(result.Date) = [year |-> 2024, month |-> 2, day |-> 29]
    /\ DaysBetween(result.Date, now) # 0

(* C9: when token[1] is not a keyword and does not parse as YYYY-MM-DD,    *)
(* Parse returns no error: it emits one warning naming the input and       *)
(* returns the single date now, week mode unset.                           *)
C9_FallbackToNow ==
    (Returned /\ Len(args) >= 2
        /\ args[2] \notin {KwEmpty, KwToday, KwTomorrow, KwYesterday, KwWeek, KwNext}
        /\ ~ParseDate(args[2]).ok)
        => /\ err = Nil
           /\ log = <<Warning(args[2])>>
           /\ DaysBetween(result.Date, now) = 0
           /\ result.IsWeek = FALSE
           /\ result.WeekDays = <<>>

(* C10: when token[1] is "next" and the sequence has length exactly 2,     *)
(* Parse fails with "missing day of week or 'week'" and returns no date.   *)
C10_NextMissing ==
    (Returned /\ Len(args) = 2 /\ args[2] = KwNext)
        => /\ err = ErrMissing
           /\ result = ZeroResult

C10_Witness ==
    /\ Returned /\ Len(args) = 2 /\ args[2] = KwNext
    /\ err = ErrMissing
    /\ result.Date = ZeroTime
    /\ result.Date # Today(now)

(* C11: when token[1] is "next" and token[2] is neither "week" nor one of  *)
(* the seven weekday names (compared case-insensitively), Parse fails with *)
(* "invalid day of week: <token[2]>"; and this error occurs for no valid   *)
(* weekday name, for any now.                                              *)
C11_InvalidWeekdayOnly ==
    (Returned /\ Len(args) >= 3 /\ args[2] = KwNext)
        => (err = ErrInvalid(args[3])
              <=> ToLower(args[3]) \notin (LowerWeekdays \cup {KwWeek}))

(* C12: Parse returns an error in exactly two situations: token[1] is      *)
(* "next" with token[2] missing, or token[1] is "next" with token[2]       *)
(* neither "week" nor a weekday name; every other call succeeds.           *)
C12_TwoErrorCases ==
    Returned
        => (err # Nil
              <=> /\ Len(args) >= 2
                  /\ args[2] = KwNext
                  /\ \/ Len(args) < 3
                     \/ ToLower(args[3]) \notin (LowerWeekdays \cup {KwWeek}))

(* C13: whenever Parse returns an error, the result returned with it is    *)
(* the zero value: no date (not now, not a partly advanced scan date),     *)
(* week mode unset, week sequence empty.                                   *)
C13_NoPartialResult ==
    (Returned /\ err # Nil)
        => /\ result.Date = ZeroTime
           /\ result.IsWeek = FALSE
           /\ result.WeekDays = <<>>

\* the scan ran all seven steps and failed
C13_Witness ==
    /\ Returned /\ Len(args) = 3
    /\ err = ErrInvalid(args[3])
    /\ result = ZeroResult
    /\ ScanWeekday(Today(now), ToLower(args[3]), 0).date # Today(now)

(* C15 as stated: in every successful result exactly one shape is          *)
(* populated: the single date with an empty week sequence (week mode       *)
(* unset), or week mode with the 7 dates and the single date not           *)
(* populated.                                                              *)
C15_ExactlyOneShape ==
    (Returned /\ err = Nil)
        => \/ /\ result.IsWeek = FALSE
              /\ result.WeekDays = <<>>
           \/ /\ result.IsWeek = TRUE
              /\ Len(result.WeekDays) = 7
              /\ result.Date = ZeroTime

(* C15 amended: in every successful result the week sequence holds the 7   *)
(* dates exactly when week mode is set and is empty otherwise; in week     *)
(* mode the single date is populated too: it holds the truncated now the   *)
(* week was computed from.                                                 *)
C15_WeekIffFlag ==
    (Returned /\ err = Nil)
        => IF result.IsWeek
           THEN /\ Len(result.WeekDays) = 7
                /\ result.Date = Today(now)
                /\ Len(args) >= 2
                /\ args[2] \in {KwWeek, KwNext}
           ELSE result.WeekDays = <<>>

\* "next week" returned its week beside the date it started from
C15_Witness ==
    /\ Returned /\ err = Nil
    /\ result.IsWeek
    /\ args[2] = KwNext
    /\ Len(result.WeekDays) = 7
    /\ result.Date # ZeroTime

(* C16: token[0] is ignored: token sequences that differ only in token[0]  *)
(* give, for the same now, the same date, week flag, week sequence,        *)
(* warning and error outcome.                                              *)
C16_FirstTokenIgnored ==
    (Returned /\ Len(args) >= 1)
        => \A u \in OtherFirst :
              Parse(<<u>> \o Tail(args), now) = Return(result, err, log)

\* every branch of the switch is compared: here the weekday scan
C16_Witness ==
    /\ Returned /\ IsNextWeekday
    /\ args[1] \notin OtherFirst
    /\ err = Nil
    /\ result.Date # Today(now)

(* C19: truncation to day granularity never changes the calendar day: for  *)
(* every instant and every UTC offset of the provider's value, the date    *)
(* Parse uses as "today" has the year, month and day the value shows in    *)
(* its own location.                                                       *)
C19_TruncateKeepsDay ==
    Returned => CivilOf(Today(now)) = CivilOf(now)

C14_RunStopsOnParseError ==
    err # Nil
        => /\ pc = "exit"
           /\ runErr = err
           /\ effects = <<"config.NewFileLoader", "loader.LoadConfig">>

\* run has returned the error of "next" without a weekday
C14_Witness ==
    /\ pc = "exit"
    /\ args = << <<"e", "v", "e">>, KwNext >>
    /\ err = ErrMissing
    /\ runErr = ErrMissing
    /\ nowCalls = 1

(* C17: resolution is deterministic in the injected clock: two Parse calls *)
(* with the same token sequence whose provider returned the same value     *)
(* give identical results and error outcomes, whatever happened between    *)
(* them (time passing, the provider changing and changing back); the wall  *)
(* clock is read by the default provider only, never by Parse.             *)
C17_Deterministic ==
    /\ \A i, j \in 1..Len(returns) :
          seen[i] = seen[j]
              => /\ returns[i].result = returns[j].result
                 /\ returns[i].err = returns[j].err
    /\ provider = "injected"
          => \A i \in 1..Len(returns) :
                /\ seen[i] \in ClockNows
                /\ returns[i].result = Parse(args, seen[i]).result

\* two calls a day apart on the wall clock, same provider value, same date
C17_Witness ==
    /\ provider = "injected"
    /\ Len(returns) = 2
    /\ seen[1] = seen[2]
    /\ returns[2].wall >= returns[1].wall + DayHours
    /\ returns[1].err = Nil
    /\ returns[1].result.Date # ZeroTime
    /\ returns[1].result = returns[2].result

(* C18: on every path through Parse the now provider is invoked exactly    *)
(* once, and every date in the result is derived from that single value,   *)
(* also when the provider's value changes while Parse runs.                *)
C18_OneProviderCall ==
    /\ nowCalls = Len(seen)
    /\ pc = "switch" => nowCalls = Len(returns) + 1
    /\ pc \in {"call", "returned"} => nowCalls = Len(returns)
    /\ pc = "returned"
          => LET r == Parse(args, seen[Len(seen)])
             IN  /\ result = r.result
                 /\ err = r.err

\* the provider's value moved to another day between the provider call and
\* the switch, and the result is the one of the value Parse was given
C18_Witness ==
    /\ pc = "returned"
    /\ nowCalls = 1
    /\ err = Nil
    /\ Today(NowDate) # Today(seen[1])
    /\ result.Date = Add(Today(seen[1]), DayHours)

\* the literal keywords of Parse's switch
Keywords == {KwToday, KwTomorrow, KwYesterday, KwWeek, KwNext}

(* C23: keyword matching on token[1] is case-sensitive: a token[1] that    *)
(* differs from a keyword only in letter case goes to the explicit-date    *)
(* path, so it yields now with a warning and no error, also for            *)
(* [_, "Next"] without token[2] and [_, "Next", "funday"].                 *)
C23_KeywordsCaseSensitive ==
    (Returned /\ Len(args) >= 2
        /\ args[2] \notin Keywords
        /\ ToLower(args[2]) \in Keywords)
        => /\ err = Nil
           /\ log = <<Warning(args[2])>>
           /\ result.IsWeek = FALSE
           /\ result.WeekDays = <<>>
           /\ LocalDay(result.Date) = LocalDay(now)

(* C24: when token[1] is "next" and token[2] is "week" in any letter case, *)
(* Parse returns week mode with the week that contains now + 7 days, and   *)
(* neither runs the weekday scan nor reports an invalid weekday.           *)
C24_NextWeekAnyCase ==
    (Returned /\ Len(args) = 3 /\ args[2] = KwNext /\ ToLower(args[3]) = KwWeek)
        => /\ err = Nil
           /\ result.IsWeek
           /\ Len(result.WeekDays) = 7
           /\ result.Date = Today(now)
           /\ LocalDay(result.WeekDays[1]) <= LocalDay(now) + 7
           /\ LocalDay(now) + 7 <= LocalDay(result.WeekDays[7])

(* C22: buildCalendarID returns the username unchanged when it contains    *)
(* '@', and otherwise username + "@" + default domain; applied to its own  *)
(* output it returns that output unchanged.                                *)
C22_BuildCalendarID ==
    /\ pc = "built"
          => IF \E i \in DOMAIN username : username[i] = "@"
             THEN calendarID = username
             ELSE /\ Len(calendarID) = Len(username) + 1 + Len(defaultDomain)
                  /\ SubSeq(calendarID, 1, Len(username)) = username
                  /\ calendarID[Len(username) + 1] = "@"
                  /\ SubSeq(calendarID, Len(username) + 2, Len(calendarID))
                        = defaultDomain
    /\ pc = "rebuilt" => calendarID = username

\* a plain username got its domain, and the second application kept it
C22_Witness ==
    /\ pc = "rebuilt"
    /\ calendarID = <<"e", "v", "e", "@", "x", ".", "n", "o">>
    /\ defaultDomain = <<"x", ".", "n", "o">>

(* C25: in getWeekDays, for every base weekday and every day offset, the   *)
(* computed daysUntilMonday lies in -6..0, so the emitted Monday is the    *)
(* latest Monday on or before base + offset: at most 6 days earlier, never *)
(* a later Monday.                                                         *)
C25_MondayOnOrBefore ==
    pc = "weekDone"
        => LET target == LocalDay(startDate) + offset
               monday == weekDays[1]
           IN  /\ untilMonday \in (-6)..0
               /\ Weekday(monday) = 1
               /\ LocalDay(monday) <= target
               /\ target - LocalDay(monday) <= 6

\* a Sunday target: the Monday six days earlier, not the one a day later
C25_Witness ==
    /\ pc = "weekDone"
    /\ offset < 0
    /\ (LocalDay(startDate) + offset + 1) % 7 = 0
    /\ untilMonday = -6
    /\ LocalDay(weekDays[1]) = LocalDay(startDate) + offset - 6

\* the attendees other than the calendar owner, in their original order
NonSelf == SelectSeq(attendees, LAMBDA e : e # calendarID)

\* compactAttendees ended its list with the marker
Marked == who # <<>> /\ who[Len(who)] = Ellipsis

\* the names compactAttendees listed, the marker left aside
Listed == IF Marked THEN SubSeq(who, 1, Len(who) - 1) ELSE who

(* C29: compactAttendees never lists the calendar owner, lists at most     *)
(* three attendees in their original order with the home-domain suffix     *)
(* removed, and appends the "..." marker only when at least one non-self   *)
(* attendee was left out of the list.                                      *)
C29_CompactAttendees ==
    pc = "compacted"
        => /\ Len(Listed) <= 3
           /\ Len(Listed) <= Len(NonSelf)
           /\ \A i \in 1..Len(Listed) :
                 Listed[i] = TrimSuffix(NonSelf[i], <<"@">> \o defaultDomain)
           /\ compact = Join(who)
           /\ Marked => Len(NonSelf) > Len(Listed)

\* the ListEvents calls made so far, in order
Queries == SelectSeq(trace, LAMBDA e : e.kind = "query")

\* the per-day headers printed so far, in order
DayHeaders == SelectSeq(trace, LAMBDA e : e.kind = "day")

\* some ListEvents call has failed
SomeQueryFailed == \E i \in DOMAIN trace : ~trace[i].ok

(* C21: for a week-mode result ListAndPrintEventsForWeek queries the       *)
(* calendar service for each of the 7 dates, in Monday-to-Sunday order,    *)
(* and prints one per-day header for each date before that day's events;   *)
(* when every query succeeds it returns no error.                          *)
C21_WeekListing ==
    (pc = "exit" /\ ~SomeQueryFailed)
        => /\ listErr = Nil
           /\ \A i \in 1..7 : \E k \in DOMAIN Queries : Queries[k].date = weekDays[i]
           /\ \A j, k \in DOMAIN Queries :
                 j < k => LocalDay(Queries[j].date) <= LocalDay(Queries[k].date)
           /\ Len(DayHeaders) = 7
           /\ \A i \in 1..7 : DayHeaders[i].date = weekDays[i]
           /\ \A k \in DOMAIN trace :
                 trace[k].kind \in {"item", "none"}
                    => \E j \in 1..(k - 1) :
                          /\ trace[j] = Line("day", trace[k].date)
                          /\ \A m \in (j + 1)..(k - 1) : trace[m].kind = "item"
           /\ \A k \in DOMAIN trace :
                 trace[k].kind = "day"
                    => trace[k - 1] = Query(trace[k].date, TRUE)

\* a whole week was listed, with events on Sunday
C21_Witness ==
    /\ pc = "exit" /\ listErr = Nil
    /\ Len(DayHeaders) = 7
    /\ trace[Len(trace)] = Line("item", weekDays[7])
    /\ Weekday(weekDays[7]) = 0

(* C26: ListAndPrintEventsForWeek stops at the first calendar query that   *)
(* fails: it returns that error, and no later day of the week is queried   *)
(* or printed after the failure.                                           *)
C26_StopsAtFirstFailure ==
    SomeQueryFailed
        => /\ pc = "exit"
           /\ listErr = ErrListEvents
           /\ ~trace[Len(trace)].ok
           /\ \A i \in 1..(Len(trace) - 1) : trace[i].ok

\* Wednesday's query failed after Monday and Tuesday were printed
C26_Witness ==
    /\ pc = "exit"
    /\ listErr = ErrListEvents
    /\ Len(DayHeaders) = 2
    /\ trace[Len(trace)] = Query(weekDays[3], FALSE)

\* getTokenFromWeb has been entered
WebFlowStarted ==
    \/ pc \in {"web", "await", "shutdown", "exchange", "save"}
    \/ state # ""
    \/ tokErr \in {ErrCredentials, ErrExchange, ErrSaveToken}
    \/ exchanged # <<>>

(* C27: loadOrObtainToken starts the browser OAuth flow only when loading  *)
(* the stored token fails: a stored token that loads and parses is         *)
(* returned without any web flow or token save, and a stored token that    *)
(* loads but does not parse gives an error without a fall back to the web  *)
(* flow.                                                                   *)
C27_WebFlowOnlyWithoutToken ==
    /\ WebFlowStarted => stored = "missing"
    /\ stored # "missing"
          => /\ ~listening
             /\ handlers = NoRequests
             /\ saved = <<>>
    /\ (pc = "tokenDone" /\ stored = "valid")
          => /\ token = <<"token", "stored">>
             /\ tokErr = Nil
    /\ (pc = "tokenDone" /\ stored = "corrupt")
          => /\ token = <<>>
             /\ tokErr = ErrUnmarshal
    /\ stored = "corrupt" => pc \in {"loadToken", "tokenDone"}

\* the stored token did not parse and the function has returned its error
C27_Witness ==
    /\ pc = "tokenDone"
    /\ stored = "corrupt"
    /\ tokErr = ErrUnmarshal
    /\ state = ""

(* C28: in getTokenFromWeb, under any interleaving of callback requests, a *)
(* callback whose state parameter differs from the generated state never   *)
(* delivers a code; only the code of the first state-matching callback is  *)
(* exchanged, the token is saved only after that exchange succeeds, and    *)
(* every state-matching callback handler eventually completes.             *)
C28_CallbackSafety ==
    /\ \A h \in 1..MaxCallbacks :
          handlers[h].pc \in {"send", "done"} => handlers[h].state = state
    /\ Len(exchanged) <= 1
    /\ \A i \in DOMAIN exchanged :
          /\ exchanged[i] = authCode
          /\ \E h \in 1..MaxCallbacks :
                /\ handlers[h].pc = "done"
                /\ handlers[h].code = authCode
    /\ Cardinality({h \in 1..MaxCallbacks : handlers[h].pc = "done"}) <= 1
    /\ \A i \in DOMAIN saved :
          /\ exchanged # <<>>
          /\ saved[i] = TokenFor(exchanged[1])

C28_Callbacks ==
    /\ []C28_CallbackSafety
    /\ \A h \in 1..MaxCallbacks :
          (handlers[h].pc = "send") ~> (handlers[h].pc = "done")

====
